---- MODULE Spec2Model ----
(***************************************************************************)
(* Model of the quantumshield ledger core: Transaction, Block (Merkle      *)
(* root, block hash, proof-of-work search) and Blockchain (wallets,        *)
(* pending pool, mining, balances by replay, chain validation).            *)
(*                                                                         *)
(* SHA3-256 is modelled as a collision-free function: a hash value is the  *)
(* record of its preimage together with a digest number whose HexLen       *)
(* hexadecimal digits stand for the leading characters of the hexdigest.   *)
(***************************************************************************)
EXTENDS Integers, Sequences, FiniteSets, TLC

\* ---------------------------------------------------------------- bounds
MaxChain == 3
MaxAdmitted == 2
HexLen == 2
MaxTxs == 5

\* ------------------------------------------------------ program constants
MiningReward == 10
GenesisTimestamp == 0

\* ----------------------------------------------------------- input sets
Names == {"Alice"}
Difficulties == {1}
WalletAddresses == <<"A", "B">>
Addresses == {"System", "A", "B"}
Amounts == {-5, 30, 100}
TamperAmounts == {5, 7}

VARIABLES
    chain,                 \* Blockchain.chain
    pending_transactions,  \* Blockchain.pending_transactions
    difficulty,            \* Blockchain.difficulty
    wallets,               \* Blockchain.wallets: address -> wallet record
    clock,                 \* what the next datetime.now() returns
    ret,                   \* return value of the last call
    miners,                \* history: miner of every successful mining call
    admitted,              \* history: number of transactions add_transaction admitted
    tampered,              \* history: index of a block edited behind the API
    block,                 \* the Block a caller holds outside any chain
    pc,                    \* where that Block is in its life
    attempts               \* history: calculate_hash calls made by mine_block

\* The Block held outside a chain: untouched by every Blockchain operation.
held == <<block, pc, attempts>>

vars == <<chain, pending_transactions, difficulty, wallets, clock, ret,
          miners, admitted, tampered, held>>

\* ------------------------------------------------------------ SHA3-256
None == [none |-> TRUE]

RECURSIVE Pow16(_)
Pow16(n) == IF n = 0 THEN 1 ELSE 16 * Pow16(n - 1)

HexSpace == Pow16(HexLen)

Ord(s) ==
    CASE s = "System" -> 1
      [] s = "A" -> 2
      [] s = "B" -> 3
      [] s = "Genesis" -> 4
      [] s = "genesis" -> 5
      [] s = "reward" -> 6
      [] OTHER -> 7

sha3_256(form, data, mix) ==
    [digest |-> mix % HexSpace, form |-> form, preimage |-> data]

\* hexdigest(): the leading HexLen hexadecimal digits of a hash
RECURSIVE Digits(_, _)
Digits(n, len) ==
    IF len = 0 THEN <<>> ELSE Append(Digits(n \div 16, len - 1), n % 16)

hexdigest(h) == Digits(h.digest, HexLen)

Zeros(d) == [i \in 1..d |-> 0]

Min(a, b) == IF a < b THEN a ELSE b

\* Python slice s[:d]
Slice(s, d) == SubSeq(s, 1, Min(d, Len(s)))

\* Python s.startswith(p)
startswith(s, p) == Len(p) <= Len(s) /\ SubSeq(s, 1, Len(p)) = p

\* --------------------------------------------------------- PQC signer
PQCKeyPair(k) == [public_key |-> k, private_key |-> k + 100]

get_address(keypair) == WalletAddresses[keypair.public_key]

sign(message, keypair) ==
    sha3_256("sign", <<message, keypair.private_key>>,
             Ord(message[1]) * 3 + Ord(message[2]) * 5 + message[3] * 7
               + keypair.private_key)

\* h.update(message_bytes + public_key); h.digest() == signature
verify(message, signature, public_key) ==
    sha3_256("sign", <<message, public_key>>,
             Ord(message[1]) * 3 + Ord(message[2]) * 5 + message[3] * 7
               + public_key)
      = signature

\* --------------------------------------------------------- Transaction
Transaction(sender, recipient, amount, signature, nonce, now) ==
    [sender |-> sender, recipient |-> recipient, amount |-> amount,
     timestamp |-> now, signature |-> signature,
     nonce |-> IF nonce # None THEN nonce
               ELSE sha3_256("nonce", <<sender, recipient, amount, now>>,
                             Ord(sender) * 3 + Ord(recipient) * 5
                               + amount * 7 + now * 11)]

StrNonce(s) == [form |-> "str", preimage |-> s, digest |-> Ord(s)]

to_dict(tx) ==
    [sender |-> tx.sender, recipient |-> tx.recipient, amount |-> tx.amount,
     timestamp |-> tx.timestamp, nonce |-> tx.nonce,
     signature |-> IF tx.signature # None THEN tx.signature ELSE None]

TxMix(tx) ==
    Ord(tx.sender) * 3 + Ord(tx.recipient) * 5 + tx.amount * 7
      + tx.timestamp * 11 + tx.nonce.digest * 13
      + (IF tx.signature # None THEN tx.signature.digest * 17 ELSE 0)

get_hash(tx) == sha3_256("tx", to_dict(tx), TxMix(tx))

\* --------------------------------------------------------------- Block
\* mutant: a pair is combined without regard to its order
RECURSIVE Pairwise_unordered(_)
Pairwise_unordered(hs) ==
    IF Len(hs) = 0 THEN <<>>
    ELSE <<sha3_256("combined", {hs[1], hs[2]},
                    hs[1].digest * 3 + hs[2].digest * 3 + 1)>>
         \o Pairwise_unordered(SubSeq(hs, 3, Len(hs)))

RECURSIVE Pairwise(_)
Pairwise(hs) ==
    IF Len(hs) = 0 THEN <<>>
    ELSE <<sha3_256("combined", <<hs[1], hs[2]>>,
                    hs[1].digest * 3 + hs[2].digest * 5 + 1)>>
         \o Pairwise(SubSeq(hs, 3, Len(hs)))

\* mutant: the last hash of an odd level goes up as it is, unpaired
RECURSIVE MerkleFold_carries_odd(_)
MerkleFold_carries_odd(tx_hashes) ==
    IF Len(tx_hashes) <= 1 THEN tx_hashes[1]
    ELSE IF Len(tx_hashes) % 2 # 0
         THEN MerkleFold_carries_odd(
                 Append(Pairwise(SubSeq(tx_hashes, 1, Len(tx_hashes) - 1)),
                        tx_hashes[Len(tx_hashes)]))
         ELSE MerkleFold_carries_odd(Pairwise(tx_hashes))

\* mutant: a single hash is padded and combined like an odd level
RECURSIVE MerkleFold_combines_single(_)
MerkleFold_combines_single(tx_hashes) ==
    IF Len(tx_hashes) = 1
    THEN Pairwise(<<tx_hashes[1], tx_hashes[1]>>)[1]
    ELSE LET padded == IF Len(tx_hashes) % 2 # 0
                       THEN Append(tx_hashes, tx_hashes[Len(tx_hashes)])
                       ELSE tx_hashes
         IN MerkleFold_combines_single(Pairwise(padded))

RECURSIVE MerkleFold(_)
MerkleFold(tx_hashes) ==
    IF Len(tx_hashes) <= 1 THEN tx_hashes[1]
    ELSE LET padded == IF Len(tx_hashes) % 2 # 0
                       THEN Append(tx_hashes, tx_hashes[Len(tx_hashes)])
                       ELSE tx_hashes
         IN MerkleFold(Pairwise(padded))

calculate_merkle_root(transactions) ==
    IF transactions = <<>> THEN sha3_256("empty", <<>>, 9)
    ELSE MerkleFold([i \in 1..Len(transactions) |-> get_hash(transactions[i])])

RECURSIVE TxsMix(_)
TxsMix(txs) ==
    IF txs = <<>> THEN 0
    ELSE Len(txs) * TxMix(txs[Len(txs)]) + TxsMix(SubSeq(txs, 1, Len(txs) - 1))

calculate_hash(b) ==
    sha3_256("block",
             [index |-> b.index, timestamp |-> b.timestamp,
              transactions |-> [i \in 1..Len(b.transactions) |->
                                  to_dict(b.transactions[i])],
              previous_hash |-> b.previous_hash,
              merkle_root |-> b.merkle_root, nonce |-> b.nonce],
             b.index * 3 + b.timestamp * 5 + TxsMix(b.transactions) * 7
               + b.previous_hash.digest * 11 + b.merkle_root.digest * 13
               + b.nonce * 37)

\* mutant: the Merkle root is that of no transactions
Block_with_empty_root(index, transactions, previous_hash, timestamp) ==
    [index |-> index, transactions |-> transactions,
     previous_hash |-> previous_hash, timestamp |-> timestamp,
     nonce |-> 0, hash |-> None,
     merkle_root |-> calculate_merkle_root(<<>>)]

Block(index, transactions, previous_hash, timestamp) ==
    [index |-> index, transactions |-> transactions,
     previous_hash |-> previous_hash, timestamp |-> timestamp,
     nonce |-> 0, hash |-> None,
     merkle_root |-> calculate_merkle_root(transactions)]

\* mutant: one hash attempt, no search for the target
mine_block_single_attempt(b, d) == [b EXCEPT !.hash = calculate_hash(b)]

RECURSIVE mine_block(_, _)
mine_block(b, d) ==
    LET hashed == [b EXCEPT !.hash = calculate_hash(b)]
    IN IF Slice(hexdigest(hashed.hash), d) = Zeros(d)
       THEN hashed
       ELSE mine_block([hashed EXCEPT !.nonce = @ + 1], d)

\* ---------------------------------------------------------- Blockchain
ZeroHash == [form |-> "str", preimage |-> "0" , digest |-> 0]

\* mutant: the genesis block is appended without being mined
create_genesis_block_unmined(d, now) ==
    Block(0,
          <<Transaction("System", "Genesis", 0, None, StrNonce("genesis"),
                        now)>>,
          ZeroHash, GenesisTimestamp)

create_genesis_block(d, now) ==
    mine_block(Block(0,
                     <<Transaction("System", "Genesis", 0, None,
                                   StrNonce("genesis"), now)>>,
                     ZeroHash, GenesisTimestamp),
               d)

get_latest_block == chain[Len(chain)]

\* mutant: the sender is never debited
Effect_credit_only(tx, address) ==
    IF tx.recipient = address THEN tx.amount ELSE 0

\* One transaction's effect on the balance of address (the two ifs of the
\* loop body).
Effect(tx, address) ==
    (IF tx.recipient = address THEN tx.amount ELSE 0)
      - (IF tx.sender = address THEN tx.amount ELSE 0)

\* mutant: the loop misses the first transaction
RECURSIVE SumAmounts_skip_first(_, _, _)
SumAmounts_skip_first(txs, n, address) ==
    IF n <= 1 THEN 0
    ELSE SumAmounts_skip_first(txs, n - 1, address) + Effect(txs[n], address)

\* for tx in txs[:n]
RECURSIVE SumAmounts(_, _, _)
SumAmounts(txs, n, address) ==
    IF n = 0 THEN 0
    ELSE SumAmounts(txs, n - 1, address) + Effect(txs[n], address)

\* mutant: only the latest block is replayed
ChainAmounts_latest_only(blocks, n, address) ==
    IF n = 0 THEN 0
    ELSE SumAmounts(blocks[n].transactions, Len(blocks[n].transactions),
                    address)

\* for block in blocks[:n]
RECURSIVE ChainAmounts(_, _, _)
ChainAmounts(blocks, n, address) ==
    IF n = 0 THEN 0
    ELSE ChainAmounts(blocks, n - 1, address)
         + SumAmounts(blocks[n].transactions, Len(blocks[n].transactions),
                      address)

\* mutant: the pending transactions are left out of the balance
get_balance_chain_only(address) == ChainAmounts(chain, Len(chain), address)

get_balance(address) ==
    ChainAmounts(chain, Len(chain), address)
      + SumAmounts(pending_transactions, Len(pending_transactions), address)

\* mutant: the proof-of-work check is left out
BlockValid_without_proof_of_work(i) ==
    /\ chain[i].hash = calculate_hash(chain[i])
    /\ chain[i].previous_hash = chain[i - 1].hash

BlockValid(i) ==
    /\ chain[i].hash = calculate_hash(chain[i])
    /\ chain[i].previous_hash = chain[i - 1].hash
    /\ startswith(hexdigest(chain[i].hash), Zeros(difficulty))

is_chain_valid == \A i \in 2..Len(chain) : BlockValid(i)

\* The transactions of txs that add_transaction admitted (those whose nonce
\* was derived, not given).
Derived(txs) == {j \in 1..Len(txs) : txs[j].nonce.form = "nonce"}

\* ------------------------------------------------------------- actions
\* datetime.now() is read once by every Transaction and every Block that is
\* constructed; each reading is later than the one before, so clock counts
\* the readings. The model admits MaxAdmitted transactions and mines up to
\* MaxChain blocks.
\*
\* Blockchain(difficulty): the clock is read once, by the genesis transaction.
Init ==
    /\ difficulty \in Difficulties
    /\ chain = <<create_genesis_block(difficulty, 1)>>
    /\ clock = 2
    /\ pending_transactions = <<>>
    /\ wallets = <<>>
    /\ ret = "init"
    /\ miners = <<>>
    /\ admitted = 0
    /\ tampered = 0
    /\ block = None
    /\ pc = "none"
    /\ attempts = 0

create_wallet(name) ==
    LET keypair == PQCKeyPair(Cardinality(DOMAIN wallets) + 1)
        address == get_address(keypair)
    IN /\ Cardinality(DOMAIN wallets) < Len(WalletAddresses)
       /\ wallets' = [a \in DOMAIN wallets \cup {address} |->
                        IF a = address
                        THEN [name |-> name, keypair |-> keypair, balance |-> 0]
                        ELSE wallets[a]]
       /\ ret' = address
       /\ UNCHANGED <<chain, pending_transactions, difficulty, clock,
                      miners, admitted, tampered, held>>

\* mutant: the balance check is skipped
InsufficientBalance_unchecked(sender, amount) == FALSE

InsufficientBalance(sender, amount) ==
    sender # "System" /\ get_balance(sender) < amount

SignedTransaction(sender, recipient, amount, now) ==
    Transaction(sender, recipient, amount,
                IF sender \in DOMAIN wallets
                THEN sign(<<sender, recipient, amount>>, wallets[sender].keypair)
                ELSE None,
                None, now)

\* mutant: the transaction is put at the front of the pool
add_transaction_at_front(sender, recipient, amount) ==
    /\ IF InsufficientBalance(sender, amount)
       THEN /\ ret' = "False"
            /\ UNCHANGED <<pending_transactions, clock, admitted>>
       ELSE /\ admitted < MaxAdmitted
            /\ admitted' = admitted + 1
            /\ pending_transactions' =
                 <<SignedTransaction(sender, recipient, amount, clock)>>
                   \o pending_transactions
            /\ clock' = clock + 1
            /\ ret' = "True"
    /\ UNCHANGED <<chain, difficulty, wallets, miners, tampered, held>>

add_transaction(sender, recipient, amount) ==
    /\ IF InsufficientBalance(sender, amount)
       THEN /\ ret' = "False"
            /\ UNCHANGED <<pending_transactions, clock, admitted>>
       ELSE /\ admitted < MaxAdmitted
            /\ admitted' = admitted + 1
            /\ pending_transactions' =
                 Append(pending_transactions,
                        SignedTransaction(sender, recipient, amount, clock))
            /\ clock' = clock + 1
            /\ ret' = "True"
    /\ UNCHANGED <<chain, difficulty, wallets, miners, tampered, held>>

\* mutant: the empty-pool check is skipped
NothingToMine_unchecked == FALSE

NothingToMine == pending_transactions = <<>>

\* mutant: the new block is linked to the first block, not the latest
NewBlock_linked_to_first(now) ==
    Block(Len(chain), pending_transactions, chain[1].hash, now)

NewBlock(now) ==
    Block(Len(chain), pending_transactions, get_latest_block.hash, now)

\* mutant: sender and recipient of the reward are swapped
RewardTransaction_swapped(miner_address, now) ==
    Transaction(miner_address, "System", MiningReward, None,
                StrNonce("reward"), now)

RewardTransaction(miner_address, now) ==
    Transaction("System", miner_address, MiningReward, None,
                StrNonce("reward"), now)

\* mutant: the pool is kept and the reward added to it
mine_pending_transactions_keeping_pool(miner_address) ==
    /\ IF NothingToMine
       THEN /\ ret' = "None"
            /\ UNCHANGED <<chain, pending_transactions, clock, miners>>
       ELSE /\ Len(chain) < MaxChain
            /\ chain' = Append(chain, mine_block(NewBlock(clock), difficulty))
            /\ pending_transactions' =
                 Append(pending_transactions,
                        RewardTransaction(miner_address, clock + 1))
            /\ clock' = clock + 2
            /\ miners' = Append(miners, miner_address)
            /\ ret' = "Block"
    /\ UNCHANGED <<difficulty, wallets, admitted, tampered, held>>

\* mutant: the pool is emptied and no reward is issued
mine_pending_transactions_without_reward(miner_address) ==
    /\ IF NothingToMine
       THEN /\ ret' = "None"
            /\ UNCHANGED <<chain, pending_transactions, clock, miners>>
       ELSE /\ Len(chain) < MaxChain
            /\ chain' = Append(chain, mine_block(NewBlock(clock), difficulty))
            /\ pending_transactions' = <<>>
            /\ clock' = clock + 1
            /\ miners' = Append(miners, miner_address)
            /\ ret' = "Block"
    /\ UNCHANGED <<difficulty, wallets, admitted, tampered, held>>

\* mutant: the mined block takes the place of the latest block
mine_pending_transactions_replacing(miner_address) ==
    /\ IF NothingToMine
       THEN /\ ret' = "None"
            /\ UNCHANGED <<chain, pending_transactions, clock, miners>>
       ELSE /\ Len(chain) < MaxChain
            /\ chain' = [chain EXCEPT ![Len(chain)] =
                                      mine_block(NewBlock(clock), difficulty)]
            /\ pending_transactions' =
                 <<RewardTransaction(miner_address, clock + 1)>>
            /\ clock' = clock + 2
            /\ miners' = Append(miners, miner_address)
            /\ ret' = "Block"
    /\ UNCHANGED <<difficulty, wallets, admitted, tampered, held>>

mine_pending_transactions(miner_address) ==
    /\ IF NothingToMine
       THEN /\ ret' = "None"
            /\ UNCHANGED <<chain, pending_transactions, clock, miners>>
       ELSE /\ Len(chain) < MaxChain
            /\ chain' = Append(chain, mine_block(NewBlock(clock), difficulty))
            /\ pending_transactions' =
                 <<RewardTransaction(miner_address, clock + 1)>>
            /\ clock' = clock + 2
            /\ miners' = Append(miners, miner_address)
            /\ ret' = "Block"
    /\ UNCHANGED <<difficulty, wallets, admitted, tampered, held>>

Next ==
    \/ \E name \in Names : create_wallet(name)
    \/ \E sender \in Addresses, recipient \in Addresses, amount \in Amounts :
          add_transaction(sender, recipient, amount)
    \/ \E miner_address \in Addresses : mine_pending_transactions(miner_address)

Spec == Init /\ [][Next]_vars

\* Editing a mined block behind the API: the amount of transaction j of block
\* i (1-based; block 1 is the genesis block) is overwritten in place.
Tamper(i, j, amount) ==
    /\ tampered = 0
    /\ amount # chain[i].transactions[j].amount
    /\ chain' = [chain EXCEPT ![i].transactions[j].amount = amount]
    /\ tampered' = i
    /\ UNCHANGED <<pending_transactions, difficulty, wallets, clock, ret,
                   miners, admitted, held>>

NextTamper ==
    \/ /\ tampered = 0
       /\ \E sender \in Addresses, recipient \in Addresses, amount \in Amounts :
             add_transaction(sender, recipient, amount)
    \/ /\ tampered = 0
       /\ \E miner_address \in Addresses :
             mine_pending_transactions(miner_address)
    \/ \E i \in 1..Len(chain) :
          \E j \in 1..Len(chain[i].transactions), amount \in TamperAmounts :
             Tamper(i, j, amount)

SpecTamper == Init /\ [][NextTamper]_vars

\* ------------------------------------------------ the read-only calls
\* sum(len(block.transactions) for block in self.chain[:n])
RECURSIVE total_transactions(_)
total_transactions(n) ==
    IF n = 0 THEN 0
    ELSE total_transactions(n - 1) + Len(chain[n].transactions)

get_chain_info ==
    [blocks |-> Len(chain),
     total_transactions |-> total_transactions(Len(chain)),
     pending_transactions |-> Len(pending_transactions),
     difficulty |-> difficulty,
     latest_hash |-> get_latest_block.hash,
     is_valid |-> is_chain_valid]

\* A read-only call changes nothing but what its caller gets back.
call_get_balance(address) ==
    /\ ret' = ToString(get_balance(address))
    /\ UNCHANGED <<chain, pending_transactions, difficulty, wallets, clock,
                   miners, admitted, tampered, held>>

call_is_chain_valid ==
    /\ ret' = IF is_chain_valid THEN "True" ELSE "False"
    /\ UNCHANGED <<chain, pending_transactions, difficulty, wallets, clock,
                   miners, admitted, tampered, held>>

call_get_chain_info ==
    /\ ret' = ToString(get_chain_info)
    /\ UNCHANGED <<chain, pending_transactions, difficulty, wallets, clock,
                   miners, admitted, tampered, held>>

\* Forging: after an edit behind the API, the editor may also repair what
\* the edit broke: store the recomputed hash of a block, search a new nonce
\* for it, or point it at the stored hash of the block before it.
Rehash(i) ==
    /\ tampered # 0
    /\ chain' = [chain EXCEPT ![i].hash = calculate_hash(chain[i])]
    /\ UNCHANGED <<pending_transactions, difficulty, wallets, clock, ret,
                   miners, admitted, tampered, held>>

Remine(i) ==
    /\ tampered # 0
    /\ chain' = [chain EXCEPT ![i] = mine_block(chain[i], difficulty)]
    /\ UNCHANGED <<pending_transactions, difficulty, wallets, clock, ret,
                   miners, admitted, tampered, held>>

Relink(i) ==
    /\ tampered # 0
    /\ i > 1
    /\ chain' = [chain EXCEPT ![i].previous_hash = chain[i - 1].hash]
    /\ UNCHANGED <<pending_transactions, difficulty, wallets, clock, ret,
                   miners, admitted, tampered, held>>

\* The ledger is filled by "System" paying "A" and by "A" mining; then it is
\* edited once and repaired at will, and read at any time.
NextForge ==
    \/ /\ tampered = 0
       /\ \E amount \in Amounts : add_transaction("System", "A", amount)
    \/ /\ tampered = 0
       /\ mine_pending_transactions("A")
    \/ \E i \in 1..Len(chain) :
          \E j \in 1..Len(chain[i].transactions), amount \in TamperAmounts :
             Tamper(i, j, amount)
    \/ \E i \in 1..Len(chain) : Rehash(i)
    \/ \E i \in 1..Len(chain) : Remine(i)
    \/ \E i \in 1..Len(chain) : Relink(i)
    \/ call_get_balance("A")
    \/ call_is_chain_valid
    \/ call_get_chain_info

SpecForge == Init /\ [][NextForge]_vars

\* ------------------------------------------------- a Block on its own
\* A caller builds a Block from a list of transactions and mines it, as the
\* module's own test does. The list is in pending_transactions, the
\* difficulty in difficulty; no chain is involved.
InputTransactions ==
    {Transaction("System", "A", 30, None, None, 1),
     Transaction("A", "B", 30, None, None, 2)}

TransactionLists ==
    UNION {[1..n -> InputTransactions] : n \in 0..MaxTxs}

\* One difficulty more than the digest has digits: no hash can meet it.
MineDifficulties == 0..(HexLen + 1)

\* Every digest recurs after HexSpace nonces, so a search that has not
\* succeeded by then never will; the model stops counting passes there.
MaxNonce == HexSpace

InitBlock ==
    /\ difficulty \in MineDifficulties
    /\ pending_transactions \in TransactionLists
    /\ chain = <<>>
    /\ wallets = <<>>
    /\ clock = 3
    /\ ret = "init"
    /\ miners = <<>>
    /\ admitted = 0
    /\ tampered = 0
    /\ block = None
    /\ pc = "none"
    /\ attempts = 0

\* block = Block(1, transactions, "0" * 64)
new_block ==
    /\ pc = "none"
    /\ block' = Block(1, pending_transactions, ZeroHash, clock)
    /\ clock' = clock + 1
    /\ pc' = "Assembled"
    /\ UNCHANGED <<chain, pending_transactions, difficulty, wallets, ret,
                   miners, admitted, tampered, attempts>>

\* mutant: the loop is left after the first hash, whatever it is
meets_target_always(hash, d) == TRUE

\* self.hash[:difficulty] == target
meets_target(hash, d) == Slice(hexdigest(hash), d) = Zeros(d)

\* mutant: every other nonce is skipped
next_nonce_by_two(nonce) == nonce + 2

\* mutant: the nonce stays where it is
next_nonce_stuck(nonce) == nonce

\* self.nonce += 1
next_nonce(nonce) == nonce + 1

\* One pass of the while loop of block.mine_block(difficulty).
mine_block_pass ==
    /\ pc \in {"Assembled", "Mining"}
    /\ LET hashed == [block EXCEPT !.hash = calculate_hash(block)]
       IN IF meets_target(hashed.hash, difficulty)
          THEN /\ block' = hashed
               /\ pc' = "Mined"
          ELSE /\ attempts <= MaxNonce
               /\ block' = [hashed EXCEPT !.nonce = next_nonce(@)]
               /\ pc' = "Mining"
    /\ attempts' = attempts + 1
    /\ UNCHANGED <<chain, pending_transactions, difficulty, wallets, clock,
                   ret, miners, admitted, tampered>>

NextBlock ==
    \/ new_block
    \/ mine_block_pass

SpecBlock == InitBlock /\ [][NextBlock]_vars

\* The caller's thread keeps running: a pass that can be made is made.
SpecBlockFair == SpecBlock /\ WF_vars(mine_block_pass)

\* ------------------------------------- mining while the host adds
\* A host that does not serialize access: mine_pending_transactions runs
\* line by line on one thread while add_transaction runs on another.
\* Block.__init__ keeps the list it is given (self.transactions =
\* transactions) and mine_pending_transactions gives it
\* self.pending_transactions itself: from there until the pool is rebound to
\* the reward, the block's transactions and the pool are one list, and an
\* append to the pool is an append to the block.
MiningPhases == {"Assembled", "Mining", "Mined", "Appended"}

\* if not self.pending_transactions: return None; block = Block(...)
mine_start ==
    /\ pc = "none"
    /\ IF NothingToMine
       THEN /\ ret' = "None"
            /\ UNCHANGED <<block, pc, clock, attempts>>
       ELSE /\ Len(chain) < MaxChain
            /\ block' = NewBlock(clock)
            /\ clock' = clock + 1
            /\ pc' = "Assembled"
            /\ attempts' = 0
            /\ UNCHANGED ret
    /\ UNCHANGED <<chain, pending_transactions, difficulty, wallets, miners,
                   admitted, tampered>>

\* self.chain.append(block)
mine_append ==
    /\ pc = "Mined"
    /\ chain' = Append(chain, block)
    /\ pc' = "Appended"
    /\ UNCHANGED <<pending_transactions, difficulty, wallets, clock, ret,
                   miners, admitted, tampered, block, attempts>>

\* self.pending_transactions = [Transaction("System", miner_address, ...)];
\* return block
mine_finish(miner_address) ==
    /\ pc = "Appended"
    /\ pending_transactions' = <<RewardTransaction(miner_address, clock)>>
    /\ clock' = clock + 1
    /\ miners' = Append(miners, miner_address)
    /\ ret' = "Block"
    /\ pc' = "none"
    /\ block' = None
    /\ UNCHANGED <<chain, difficulty, wallets, admitted, tampered, attempts>>

\* add_transaction on the other thread: its append lands in the one list.
add_transaction_unserialized(sender, recipient, amount) ==
    /\ IF InsufficientBalance(sender, amount)
       THEN /\ ret' = "False"
            /\ UNCHANGED <<chain, pending_transactions, clock, admitted,
                           block>>
       ELSE LET transaction ==
                   SignedTransaction(sender, recipient, amount, clock)
            IN /\ admitted < MaxAdmitted
               /\ admitted' = admitted + 1
               /\ pending_transactions' =
                    Append(pending_transactions, transaction)
               /\ block' = IF pc \in MiningPhases
                           THEN [block EXCEPT !.transactions =
                                                 Append(@, transaction)]
                           ELSE block
               /\ chain' = IF pc = "Appended"
                           THEN [chain EXCEPT ![Len(chain)].transactions =
                                                 Append(@, transaction)]
                           ELSE chain
               /\ clock' = clock + 1
               /\ ret' = "True"
    /\ UNCHANGED <<difficulty, wallets, miners, tampered, pc, attempts>>

\* "System" pays "A" on one thread while "A" mines on the other.
NextRace ==
    \/ \E amount \in Amounts :
          add_transaction_unserialized("System", "A", amount)
    \/ mine_start
    \/ mine_block_pass
    \/ mine_append
    \/ mine_finish("A")

SpecRace == Init /\ [][NextRace]_vars

\* ================================================================ claims
\* C1: after any sequence of add_transaction and mine_pending_transactions
\* calls on a constructed Blockchain, is_chain_valid() returns True.
C1_ChainAlwaysValid == is_chain_valid

C1_Witness ==
    /\ Len(chain) = 3
    /\ Len(chain[3].transactions) = 2
    /\ is_chain_valid

\* C2: add_transaction by a sender other than "System" whose balance is below
\* the amount returns False and leaves the pending pool and the chain as they
\* were: in every state, such a call can be made, and no step of it does
\* anything else.
Rejected == ret' = "False" /\ UNCHANGED <<chain, pending_transactions>>

C2_InsufficientFundsRejected ==
    \A sender \in Addresses \ {"System"}, amount \in Amounts :
       get_balance(sender) < amount =>
          \A recipient \in Addresses :
             /\ ENABLED add_transaction(sender, recipient, amount)
             /\ ~ENABLED (add_transaction(sender, recipient, amount)
                            /\ ~Rejected)

C2_Witness ==
    /\ ret = "False"
    /\ pending_transactions # <<>>
    /\ Len(chain) > 1

\* C3: mine_pending_transactions on an empty pending pool returns None: no
\* block is appended, chain and pool stay as they were, no reward is issued.
NothingMined ==
    ret' = "None" /\ miners' = miners
      /\ UNCHANGED <<chain, pending_transactions>>

C3_NothingToMine ==
    pending_transactions = <<>> =>
       \A miner_address \in Addresses :
          /\ ENABLED mine_pending_transactions(miner_address)
          /\ ~ENABLED (mine_pending_transactions(miner_address)
                         /\ ~NothingMined)

C3_Witness ==
    /\ ret = "None"
    /\ pending_transactions = <<>>
    /\ Len(chain) = 1

\* The scenario of C4 and C5. The chain and the pool record every successful
\* call (each admitted transaction with its sender, recipient and amount, each
\* mining call by the reward it left behind), so the state after a given
\* sequence of calls is recognised by its contents.
IsTx(tx, sender, recipient, amount) ==
    tx.sender = sender /\ tx.recipient = recipient /\ tx.amount = amount

IsReward(tx, miner_address) ==
    tx.nonce = StrNonce("reward")
      /\ IsTx(tx, "System", miner_address, MiningReward)

IsAdmitted(tx, sender, recipient, amount) ==
    tx.nonce.form = "nonce" /\ IsTx(tx, sender, recipient, amount)

\* wallets A and B created; add_transaction("System", A, 100);
\* mine_pending_transactions(A)
AfterFunding ==
    /\ DOMAIN wallets = {"A", "B"}
    /\ Len(chain) = 2
    /\ Len(chain[2].transactions) = 1
    /\ IsAdmitted(chain[2].transactions[1], "System", "A", 100)
    /\ Len(pending_transactions) = 1
    /\ IsReward(pending_transactions[1], "A")

\* ... then add_transaction(A, B, 30); mine_pending_transactions(B)
AfterTransfer ==
    /\ DOMAIN wallets = {"A", "B"}
    /\ Len(chain) = 3
    /\ Len(chain[2].transactions) = 1
    /\ IsAdmitted(chain[2].transactions[1], "System", "A", 100)
    /\ Len(chain[3].transactions) = 2
    /\ IsReward(chain[3].transactions[1], "A")
    /\ IsAdmitted(chain[3].transactions[2], "A", "B", 30)
    /\ Len(pending_transactions) = 1
    /\ IsReward(pending_transactions[1], "B")

\* C4 (as stated): after add_transaction("System", A, 100) and
\* mine_pending_transactions(A) on a fresh chain, get_balance(A) is 100.
C4_BalanceIs100 == AfterFunding => get_balance("A") = 100

\* C4 (amended): after those two calls get_balance(A) is 100 plus the mining
\* reward, 110: the reward for A is already in the pending pool, which
\* get_balance counts.
C4_BalanceIs100PlusReward ==
    AfterFunding => get_balance("A") = 100 + MiningReward

C4_Witness == AfterFunding /\ get_balance("A") = 110

\* C5 (as stated): after then add_transaction(A, B, 30) and
\* mine_pending_transactions(B), get_balance(A) is 70 and get_balance(B) is
\* 30 plus the mining reward.
C5_BalancesAre70And40 ==
    AfterTransfer =>
        (get_balance("A") = 70 /\ get_balance("B") = 30 + MiningReward)

\* C5 (amended): after those calls get_balance(A) is 70 plus the mining reward,
\* 80 (A's reward from the first mining call is mined into the second block),
\* and get_balance(B) is 30 plus the mining reward, 40.
C5_BalancesAre80And40 ==
    AfterTransfer =>
        (get_balance("A") = 70 + MiningReward
           /\ get_balance("B") = 30 + MiningReward)

C5_Witness ==
    AfterTransfer /\ get_balance("A") = 80 /\ get_balance("B") = 40

\* C6: changing the amount of any transaction of any block on the chain, the
\* genesis block included, behind the API makes is_chain_valid() return False.
C6_TamperDetected == tampered # 0 => ~is_chain_valid

\* What the code does detect: an edit in any block after the genesis block.
C6_TamperAfterGenesisDetected == tampered > 1 => ~is_chain_valid

C6_GenesisTamperWitness == tampered = 1 /\ Len(chain) = 3 /\ is_chain_valid

\* C7 (as stated): while no admitted transaction names "System" as sender or
\* recipient, the balances of all other addresses add up to the mining reward
\* times the number of successful mine_pending_transactions calls. (A rejected
\* add_transaction leaves no trace, so the admitted transactions are the calls
\* that count.)
OtherAddresses == (Addresses \cup {"Genesis"}) \ {"System"}

RECURSIVE SumOfBalances(_)
SumOfBalances(S) ==
    IF S = {} THEN 0
    ELSE LET a == CHOOSE x \in S : TRUE
         IN get_balance(a) + SumOfBalances(S \ {a})

NamesSystem(tx) == tx.sender = "System" \/ tx.recipient = "System"

NoInjection ==
    /\ \A i \in 1..Len(chain) : \A j \in Derived(chain[i].transactions) :
          ~NamesSystem(chain[i].transactions[j])
    /\ \A j \in Derived(pending_transactions) :
          ~NamesSystem(pending_transactions[j])

RewardsTo(S) == Cardinality({k \in 1..Len(miners) : miners[k] \in S})

C7_BalancesSumToAllRewards ==
    NoInjection =>
        SumOfBalances(OtherAddresses) = MiningReward * Len(miners)

\* C7 (amended): ... the balances of all other addresses add up to the mining
\* reward times the number of successful mine_pending_transactions calls whose
\* miner address is not "System" (a reward mined to "System" is issued and
\* reaches none of them).
C7_BalancesSumToRewardsOfOthers ==
    NoInjection =>
        SumOfBalances(OtherAddresses)
          = MiningReward * RewardsTo(OtherAddresses)

C7_Witness ==
    /\ NoInjection
    /\ Len(miners) = 2
    /\ RewardsTo(OtherAddresses) = 1
    /\ admitted = 2
    /\ SumOfBalances(OtherAddresses) = MiningReward

\* C8: a successful mine_pending_transactions(miner) appends exactly one block,
\* with index = the chain length before, transactions = the whole pending pool
\* before in the same order and previous_hash = the hash of the former last
\* block; afterwards the pool is exactly one transaction from "System" to the
\* miner for the mining reward. (miners records the successful calls.)
C8_MineAppendsOneBlock ==
    [][\A miner_address \in Addresses :
          miners' = Append(miners, miner_address)
          => /\ Len(chain') = Len(chain) + 1
             /\ SubSeq(chain', 1, Len(chain)) = chain
             /\ chain'[Len(chain')].index = Len(chain)
             /\ chain'[Len(chain')].transactions = pending_transactions
             /\ chain'[Len(chain')].previous_hash = chain[Len(chain)].hash
             /\ Len(pending_transactions') = 1
             /\ IsTx(pending_transactions'[1], "System", miner_address,
                     MiningReward)]_vars

C8_Witness ==
    /\ ret = "Block"
    /\ Len(chain) = 3
    /\ Len(chain[3].transactions) = 2
    /\ miners = <<"A", "B">>
    /\ IsReward(pending_transactions[1], "B")

\* C9: in every reachable state, chain[i].previous_hash = chain[i-1].hash for
\* every i >= 1 (0-based) of the chain.
C9_Linkage ==
    \A i \in 2..Len(chain) : chain[i].previous_hash = chain[i - 1].hash

C9_Witness ==
    /\ Len(chain) = 3
    /\ chain[3].previous_hash = chain[2].hash
    /\ chain[2].previous_hash = chain[1].hash
    /\ chain[2].hash # chain[1].hash

\* C10: in every reachable state the chain is non-empty and its first block is
\* the genesis block made at construction: index 0, exactly one placeholder
\* transaction, previous_hash the all-zero string, a hash that equals its
\* recomputed hash and starts with difficulty '0' characters; no operation
\* removes or replaces it.
C10_GenesisKept ==
    /\ Len(chain) >= 1
    /\ chain[1] = create_genesis_block(difficulty, 1)
    /\ chain[1].index = 0
    /\ Len(chain[1].transactions) = 1
    /\ chain[1].transactions[1].nonce = StrNonce("genesis")
    /\ IsTx(chain[1].transactions[1], "System", "Genesis", 0)
    /\ chain[1].previous_hash = ZeroHash
    /\ chain[1].hash = calculate_hash(chain[1])
    /\ startswith(hexdigest(chain[1].hash), Zeros(difficulty))

C10_Witness ==
    /\ Len(chain) = 3
    /\ chain[1].index = 0
    /\ chain[1].hash = calculate_hash(chain[1])
    /\ chain[1].nonce > 0

\* C11: whenever mine_block(d) returns, the block's stored hash is
\* calculate_hash() of its fields as they then are, final nonce included, and
\* the first d characters of that hash are all '0'; for d = 0 it returns with
\* nonce 0 after a single hash computation. (At the difficulties the ledger
\* is run with, the loop taken pass by pass ends where the search taken as a
\* whole does.)
C11_MineReturnsMinedBlock ==
    pc = "Mined" =>
       /\ block.hash = calculate_hash(block)
       /\ Slice(hexdigest(block.hash), difficulty) = Zeros(difficulty)
       /\ difficulty = 0 => block.nonce = 0 /\ attempts = 1
       /\ difficulty \in Difficulties =>
             block = mine_block(Block(1, pending_transactions, ZeroHash,
                                      block.timestamp),
                                difficulty)

C11_Witness ==
    /\ pc = "Mined"
    /\ difficulty = HexLen
    /\ block.nonce > 16
    /\ attempts = block.nonce + 1
    /\ Len(block.transactions) = 3

\* C12: mine_block(d), started on an Assembled block (nonce 0, hash unset),
\* eventually returns with the block Mined whenever some nonce >= 0 gives a
\* hash with d leading '0' characters; it has no other outcome.
SatisfyingNonceExists ==
    \E nonce \in 0..MaxNonce :
       Slice(hexdigest(calculate_hash([block EXCEPT !.nonce = nonce])),
             difficulty) = Zeros(difficulty)

C12_MineTerminates ==
    (pc = "Assembled" /\ block.nonce = 0 /\ block.hash = None
       /\ SatisfyingNonceExists)
      ~> (pc = "Mined"
            /\ Slice(hexdigest(block.hash), difficulty) = Zeros(difficulty))

C12_Witness ==
    /\ pc = "Mined"
    /\ difficulty = 1
    /\ attempts >= 2
    /\ Len(block.transactions) = 2

\* C13: no transaction with a negative amount is ever in the pending pool or
\* in a block of the chain.
C13_NoNegativeAmounts ==
    /\ \A j \in 1..Len(pending_transactions) :
          pending_transactions[j].amount >= 0
    /\ \A i \in 1..Len(chain) :
          \A j \in 1..Len(chain[i].transactions) :
             chain[i].transactions[j].amount >= 0

\* C14: at most one registered wallet carries a given name.
C14_NamesUnique ==
    \A a \in DOMAIN wallets, b \in DOMAIN wallets :
       wallets[a].name = wallets[b].name => a = b

\* C15: for every address, get_balance(address) is the sum of the amounts of
\* all transactions, in the chain's blocks and in the pending pool, whose
\* recipient is the address, minus the sum of the amounts of those whose
\* sender is the address; a transaction from the address to itself adds
\* nothing.
RECURSIVE AllChained(_)
AllChained(n) ==
    IF n = 0 THEN <<>> ELSE AllChained(n - 1) \o chain[n].transactions

AllTransactions == AllChained(Len(chain)) \o pending_transactions

RECURSIVE Received(_, _)
Received(txs, address) ==
    IF txs = <<>> THEN 0
    ELSE (IF Head(txs).recipient = address THEN Head(txs).amount ELSE 0)
           + Received(Tail(txs), address)

RECURSIVE Sent(_, _)
Sent(txs, address) ==
    IF txs = <<>> THEN 0
    ELSE (IF Head(txs).sender = address THEN Head(txs).amount ELSE 0)
           + Sent(Tail(txs), address)

C15_BalanceIsReceivedMinusSent ==
    \A address \in Addresses \cup {"Genesis"} :
       get_balance(address)
         = Received(AllTransactions, address) - Sent(AllTransactions, address)

C15_Witness ==
    /\ Len(chain) = 2
    /\ Len(pending_transactions) = 2
    /\ IsTx(pending_transactions[2], "A", "A", 30)
    /\ get_balance("A") = 110
    /\ Received(AllTransactions, "A") = 140
    /\ Sent(AllTransactions, "A") = 30

\* C16: whatever the chain holds, edited or not, is_chain_valid() is True
\* exactly when every block after the first has a stored hash equal to its
\* recomputed hash, a previous_hash equal to the stored hash of the block
\* before it, and a stored hash that starts with difficulty '0' characters.
HashIntact(i) == chain[i].hash = calculate_hash(chain[i])

LinkIntact(i) == chain[i].previous_hash = chain[i - 1].hash

ProofOfWork(i) ==
    Slice(hexdigest(chain[i].hash), difficulty) = Zeros(difficulty)

C16_ValidIffAllThreeChecks ==
    is_chain_valid
      <=> \A i \in 2..Len(chain) :
             HashIntact(i) /\ LinkIntact(i) /\ ProofOfWork(i)

C16_Witness ==
    /\ tampered > 1
    /\ Len(chain) = 3
    /\ \A i \in 2..Len(chain) : HashIntact(i) /\ LinkIntact(i)
    /\ \E i \in 2..Len(chain) : ~ProofOfWork(i)
    /\ ~is_chain_valid

\* C17 (as stated): for a non-empty list of transactions the Merkle root is
\* the same on every evaluation, and exchanging any two positions of the list
\* gives a different root.
Swap(txs, i, j) ==
    [k \in 1..Len(txs) |->
       IF k = i THEN txs[j] ELSE IF k = j THEN txs[i] ELSE txs[k]]

C17_AnySwapChangesRoot ==
    pc # "none" /\ block.transactions # <<>> =>
       /\ block.merkle_root = calculate_merkle_root(block.transactions)
       /\ \A i \in 1..Len(block.transactions),
             j \in 1..Len(block.transactions) :
             i # j =>
                calculate_merkle_root(Swap(block.transactions, i, j))
                  # block.merkle_root

\* C17 (amended): exchanging two positions that hold transactions with
\* different hashes gives a different root.
C17_SwapOfDifferentTransactionsChangesRoot ==
    pc # "none" /\ block.transactions # <<>> =>
       /\ block.merkle_root = calculate_merkle_root(block.transactions)
       /\ \A i \in 1..Len(block.transactions),
             j \in 1..Len(block.transactions) :
             get_hash(block.transactions[i]) # get_hash(block.transactions[j])
               => calculate_merkle_root(Swap(block.transactions, i, j))
                    # block.merkle_root

C17_Witness ==
    /\ pc = "Assembled"
    /\ Len(block.transactions) = 3
    /\ block.transactions[1] # block.transactions[2]
    /\ block.transactions[3] = block.transactions[1]
    /\ calculate_merkle_root(Swap(block.transactions, 1, 2))
         # block.merkle_root
    /\ calculate_merkle_root(Swap(block.transactions, 1, 3))
         = block.merkle_root

\* C18: the Merkle root of a block that holds exactly one transaction is that
\* transaction's hash, with no combine step applied.
C18_SingleTransactionRoot ==
    pc # "none" /\ Len(block.transactions) = 1 =>
       block.merkle_root = get_hash(block.transactions[1])

C18_Witness ==
    /\ pc = "Mined"
    /\ Len(block.transactions) = 1
    /\ block.merkle_root = get_hash(block.transactions[1])
    /\ block.merkle_root.form = "tx"

\* C19: the chain is changed only by a mine_pending_transactions call that
\* succeeds; the pending pool only by such a call or by an add_transaction
\* call that succeeds, which appends exactly one transaction at the end of the
\* pool and leaves the chain as it was; get_balance, is_chain_valid,
\* get_chain_info and create_wallet leave both as they were: in every state
\* no step of these four touches either, and every step taken keeps to the
\* frame.
SuccessfulMine == ret' = "Block" /\ Len(miners') = Len(miners) + 1

SuccessfulAdd == ret' = "True" /\ admitted' = admitted + 1

AppendsOne ==
    /\ Len(pending_transactions') = Len(pending_transactions) + 1
    /\ SubSeq(pending_transactions', 1, Len(pending_transactions))
         = pending_transactions
    /\ chain' = chain

Frame ==
    /\ chain' # chain => SuccessfulMine
    /\ pending_transactions' # pending_transactions =>
          SuccessfulMine \/ (SuccessfulAdd /\ AppendsOne)
    /\ SuccessfulAdd => AppendsOne

Touched == chain' # chain \/ pending_transactions' # pending_transactions

ReadOnlyCallsTouchNothing ==
    /\ \A address \in Addresses :
          /\ ENABLED call_get_balance(address)
          /\ ~ENABLED (call_get_balance(address) /\ Touched)
    /\ ENABLED call_is_chain_valid
    /\ ~ENABLED (call_is_chain_valid /\ Touched)
    /\ ENABLED call_get_chain_info
    /\ ~ENABLED (call_get_chain_info /\ Touched)
    /\ \A name \in Names : ~ENABLED (create_wallet(name) /\ Touched)

C19_OnlyMutatorsMutate == []ReadOnlyCallsTouchNothing /\ [][Frame]_vars

C19_Witness ==
    /\ ret = "True"
    /\ Len(chain) = 2
    /\ Len(pending_transactions) = 2
    /\ IsReward(pending_transactions[1], "B")
    /\ IsTx(pending_transactions[2], "System", "B", 30)

\* C20: the chain only grows at its end and its blocks never change: every
\* step keeps every block there is, with the same index, transactions,
\* previous_hash, merkle_root, nonce and hash, at the same place.
SameBlock(a, b) ==
    /\ a.index = b.index
    /\ a.transactions = b.transactions
    /\ a.previous_hash = b.previous_hash
    /\ a.merkle_root = b.merkle_root
    /\ a.nonce = b.nonce
    /\ a.hash = b.hash

C20_ChainAppendOnly ==
    [][/\ Len(chain') >= Len(chain)
       /\ \A i \in 1..Len(chain) : SameBlock(chain[i], chain'[i])]_vars

C20_Witness ==
    /\ Len(chain) = 3
    /\ miners = <<"System", "A">>
    /\ ret = "Block"
    /\ chain[2].index = 1
    /\ chain[3].index = 2

\* C21: in every state of the ledger, every block of the chain has the Merkle
\* root of the transactions it holds; the root is the one set when the block
\* was built, and no step changes it.
C21_MerkleRootOfTransactions ==
    /\ [](\A i \in 1..Len(chain) :
             chain[i].merkle_root
               = calculate_merkle_root(chain[i].transactions))
    /\ [][\A i \in 1..Len(chain) :
             chain'[i].merkle_root = chain[i].merkle_root]_vars

C21_Witness ==
    /\ Len(chain) = 3
    /\ Len(chain[2].transactions) = 2
    /\ chain[2].merkle_root.form = "combined"
    /\ chain[2].merkle_root = calculate_merkle_root(chain[2].transactions)
    /\ chain[2].nonce > 0

\* C22: every transaction admitted to the pending pool, by add_transaction or
\* as a reward, is in exactly one block after the next successful
\* mine_pending_transactions and in no other block later; no transaction is
\* both in the pool and in a block, and none is ever dropped.
Occurrences(txs, tx) == Cardinality({k \in 1..Len(txs) : txs[k] = tx})

InChainOnce(tx) == Occurrences(AllChained(Len(chain)), tx) = 1

NoTransactionTwice ==
    \A k \in 1..Len(AllTransactions) :
       Occurrences(AllTransactions, AllTransactions[k]) = 1

NoneDropped ==
    Len(AllTransactions) = 1 + admitted + Len(miners)

PoolGoesToNewBlock ==
    Len(miners') = Len(miners) + 1 =>
       /\ Len(chain') = Len(chain) + 1
       /\ \A j \in 1..Len(pending_transactions) :
             /\ \E k \in 1..Len(chain'[Len(chain')].transactions) :
                   chain'[Len(chain')].transactions[k]
                     = pending_transactions[j]
             /\ \A k \in 1..Len(pending_transactions') :
                   pending_transactions'[k] # pending_transactions[j]

AllKept ==
    \A k \in 1..Len(AllTransactions) :
       \E m \in 1..Len(AllTransactions') :
          AllTransactions'[m] = AllTransactions[k]

C22_EveryTransactionInOneBlock ==
    /\ [](NoTransactionTwice /\ NoneDropped)
    /\ [][PoolGoesToNewBlock /\ AllKept]_vars

C22_Witness ==
    /\ Len(chain) = 3
    /\ admitted = 2
    /\ IsReward(chain[3].transactions[1], "A")
    /\ InChainOnce(chain[3].transactions[1])
    /\ InChainOnce(chain[2].transactions[1])
    /\ Len(pending_transactions) = 1
    /\ NoTransactionTwice

\* C23: for a list of odd length >= 3 the Merkle root is also the root of the
\* list followed by a copy of its last element; for a list of one element the
\* root is that element's hash, which is not the root of the element twice,
\* the hash of that hash joined to itself.
C23_DuplicateLeafCollision ==
    pc # "none" =>
       /\ (Len(block.transactions) >= 3 /\ Len(block.transactions) % 2 = 1)
            => calculate_merkle_root(
                  Append(block.transactions,
                         block.transactions[Len(block.transactions)]))
                 = block.merkle_root
       /\ Len(block.transactions) = 1 =>
             LET h == get_hash(block.transactions[1])
                 twice == calculate_merkle_root(
                             Append(block.transactions, block.transactions[1]))
             IN /\ block.merkle_root = h
                /\ twice # h
                /\ twice.form = "combined"
                /\ twice.preimage = <<h, h>>

C23_Witness ==
    /\ pc = "Assembled"
    /\ Len(block.transactions) = 5
    /\ block.transactions[4] # block.transactions[5]
    /\ calculate_merkle_root(Append(block.transactions,
                                    block.transactions[5]))
         = block.merkle_root

\* C24: a block being mined holds the pool as it was when
\* mine_pending_transactions was called: an add_transaction that runs while
\* the block is mined leaves the block's transactions as they were, and the
\* transaction it adds is in the pending pool when mine_pending_transactions
\* has returned.
C24_SnapshotKept ==
    [][/\ (pc \in MiningPhases /\ pc' \in MiningPhases)
            => block'.transactions = block.transactions
       /\ (pc = "Appended" /\ pc' = "none")
            => \A j \in 1..Len(pending_transactions) :
                  pending_transactions[j].timestamp > block.timestamp
                    => \E k \in 1..Len(pending_transactions') :
                          pending_transactions'[k] = pending_transactions[j]
      ]_vars

\* C25: a signature verifies under the public key of the key pair that made
\* it, for the message it was made for and for no other message.
Messages == {<<"A", "B", 30>>, <<"A", "B", 100>>}

C25_SignVerifyRoundTrip ==
    \A address \in DOMAIN wallets :
       \A message \in Messages, other \in Messages :
          verify(other, sign(message, wallets[address].keypair),
                 wallets[address].keypair.public_key)
            <=> other = message

\* C26: the balance of every address other than "System" is never negative.
C26_NoOverdraft ==
    \A address \in OtherAddresses : get_balance(address) >= 0

\* C27: once a mine_pending_transactions call has succeeded the pending pool
\* is never empty again, so no later call returns None: None is returned
\* only while nothing has been mined.
C27_PoolNeverEmptyAfterMining ==
    /\ [](miners # <<>> => pending_transactions # <<>>)
    /\ [](ret = "None" => miners = <<>>)
    /\ [][miners # <<>> => ret' # "None"]_vars

C27_Witness ==
    /\ Len(miners) = 2
    /\ Len(pending_transactions) = 1
    /\ IsReward(pending_transactions[1], "System")
    /\ ret = "Block"

\* C28: mine_block tries the nonces 0, 1, 2, ... in turn and changes no other
\* field: when it returns, the nonce is the least n >= 0 for which the hash
\* of the block with nonce n has difficulty leading '0' characters.
HashWithNonce(nonce) == calculate_hash([block EXCEPT !.nonce = nonce])

C28_LeastNonce ==
    pc \in {"Mining", "Mined"} =>
       /\ \A nonce \in 0..(block.nonce - 1) :
             Slice(hexdigest(HashWithNonce(nonce)), difficulty)
               # Zeros(difficulty)
       /\ pc = "Mined" =>
             Slice(hexdigest(HashWithNonce(block.nonce)), difficulty)
               = Zeros(difficulty)
       /\ [block EXCEPT !.nonce = 0, !.hash = None]
            = Block(1, pending_transactions, ZeroHash, block.timestamp)

C28_Witness ==
    /\ pc = "Mined"
    /\ difficulty = 1
    /\ block.nonce = 5
    /\ Len(block.transactions) = 4

====
